---- MODULE Spec2Model ----
(***************************************************************************)
(* Automatic Overtake plugin (src/main.py, src/settings.py, src/ui.py).    *)
(*                                                                         *)
(* The plugin object is modelled field by field.  Every method is an       *)
(* operator from a record of the plugin's fields to the record after the   *)
(* method returned, so that the sequential composition inside one handler  *)
(* (run, on_takeover) is function composition; an action installs the      *)
(* record its handler returns.                                             *)
(*                                                                         *)
(* Units.  Time: 50 ms (0.1 s = 2, 0.25 s = 5, 1 s = 20).  Distance: mm.   *)
(* Telemetry speed: mm/s.  Speed in km/h: 0.001 km/h.  The boost is        *)
(* counted in whole km/h, as int(settings.overtake_speed_boost_kph) is.    *)
(*                                                                         *)
(* Wall-clock time.  time.time() is only ever compared through differences *)
(* "now - stamp" against a fixed interval.  The model therefore keeps the  *)
(* clock relative to the present instant: the current reading is always    *)
(* `now`, and letting dt elapse moves every recorded timestamp dt into the *)
(* past (Elapse).  A timestamp that is older than the longest interval it  *)
(* is compared against is stored as 0, the value 0.0 the code itself uses  *)
(* for "never": now - 0 exceeds every interval of the program.  All calls  *)
(* of time.time() made inside one handler read the same instant.           *)
(***************************************************************************)
EXTENDS Integers, Sequences, FiniteSets, TLC

(* ---------------------------------------------------------------- bounds *)
\* The clock reading of the present instant; it has to exceed every
\* interval of the program (the largest is CLEARING_TIMEOUT_S).
Horizon == 601
\* Vehicle identifiers are 1..MaxVehicleId.
MaxVehicleId == 2
\* settings.overtake_speed_boost_kph (15 by default, src/settings.py:18, any
\* multiple of 5 from 0 to 30 on the settings page), kept small: the boost is
\* applied and retracted one km/h per pulse.
overtake_speed_boost_kph == 2
\* the largest boost scheduled where the speed pulses are looked at on their
\* own (SpecBoost)
MaxBoostTarget == 15

(* ------------------------------------------- constants of src/main.py *)
INDICATOR_PULSE_S == 2
INDICATOR_COOLDOWN_S == 20
\* 0.75, as the fraction 3/4
LANE_TOLERANCE_FACTOR == <<3, 4>>
LANE_CHANGE_STALL_BUFFER_S == 60
CLEARING_TIMEOUT_S == 600
SPEED_EVENT_HOLD_S == 5

(* ------------- settings (src/settings.py) kept at their default value *)
min_speed_kph == 45000
min_lead_distance_m == 40000
min_speed_delta_kph == 12000
hold_duration_s == 40
lane_clear_front_m == 55000
lane_clear_rear_m == 20000
\* 2.5 s
rear_time_gap_s == 50
return_clearance_m == 30000
intersection_buffer_m == 150000
request_timeout_s == 120
lane_width_m == 3700
require_highway == TRUE

(* ------------------------------------------------------------- values *)
None == "None"
\* Optional[int] and Optional[float]: the empty tuple is None, <<v>> is v.
NoValue == << >>
Some(v) == <<v>>

OvertakeState ==
    { "IDLE", "MONITORING", "REQUESTING_OUT", "CHANGING_OUT", "CLEARING",
      "REQUESTING_RETURN", "RETURNING" }

Sides == { "left", "right" }
VehicleIds == 1 .. MaxVehicleId

VARIABLES
    \* Plugin fields (src/main.py, _initialize_runtime_state)
    state, state_since, state_reason,
    pass_side, requested_side, original_side,
    lead_vehicle_id, lead_last_seen, overtaken_vehicle_id,
    pending_indicator_attr, pending_indicator_release,
    last_indicator_side, last_indicator_time,
    observed_execution,
    speed_boost_applied, speed_boost_target,
    active_speed_event, active_speed_event_started,
    \* self.controller
    lblinker, rblinker,
    \* where the thread executing run() stands, and whether on_takeover
    \* reset the plugin while run() was executing
    pc, takeover_in_run,
    \* flips with every tick that FairSpec counts
    tick_parity,
    \* where a method is looked at on its own: the arguments of its last
    \* call and what it returned
    call

plugin_vars ==
    << state, state_since, state_reason, pass_side, requested_side,
       original_side, lead_vehicle_id, lead_last_seen, overtaken_vehicle_id,
       pending_indicator_attr, pending_indicator_release,
       last_indicator_side, last_indicator_time, observed_execution,
       speed_boost_applied, speed_boost_target, active_speed_event,
       active_speed_event_started, lblinker, rblinker >>

vars == << plugin_vars, pc, takeover_in_run, tick_parity, call >>

\* no method has been called on its own
NoCall == [ method |-> None ]

\* The plugin object as a record of its fields.
Plugin ==
    [ state |-> state, state_since |-> state_since,
      state_reason |-> state_reason, pass_side |-> pass_side,
      requested_side |-> requested_side, original_side |-> original_side,
      lead_vehicle_id |-> lead_vehicle_id, lead_last_seen |-> lead_last_seen,
      overtaken_vehicle_id |-> overtaken_vehicle_id,
      pending_indicator_attr |-> pending_indicator_attr,
      pending_indicator_release |-> pending_indicator_release,
      last_indicator_side |-> last_indicator_side,
      last_indicator_time |-> last_indicator_time,
      observed_execution |-> observed_execution,
      speed_boost_applied |-> speed_boost_applied,
      speed_boost_target |-> speed_boost_target,
      active_speed_event |-> active_speed_event,
      active_speed_event_started |-> active_speed_event_started,
      lblinker |-> lblinker, rblinker |-> rblinker,
      \* what the handler that now starts has sent through events.emit
      emitted |-> << >> ]

\* The plugin object becomes the record q.
Install(q) ==
    /\ state' = q.state
    /\ state_since' = q.state_since
    /\ state_reason' = q.state_reason
    /\ pass_side' = q.pass_side
    /\ requested_side' = q.requested_side
    /\ original_side' = q.original_side
    /\ lead_vehicle_id' = q.lead_vehicle_id
    /\ lead_last_seen' = q.lead_last_seen
    /\ overtaken_vehicle_id' = q.overtaken_vehicle_id
    /\ pending_indicator_attr' = q.pending_indicator_attr
    /\ pending_indicator_release' = q.pending_indicator_release
    /\ last_indicator_side' = q.last_indicator_side
    /\ last_indicator_time' = q.last_indicator_time
    /\ observed_execution' = q.observed_execution
    /\ speed_boost_applied' = q.speed_boost_applied
    /\ speed_boost_target' = q.speed_boost_target
    /\ active_speed_event' = q.active_speed_event
    /\ active_speed_event_started' = q.active_speed_event_started
    /\ lblinker' = q.lblinker
    /\ rblinker' = q.rblinker

\* The plugin object is the record q.
Is(q) ==
    /\ state = q.state
    /\ state_since = q.state_since
    /\ state_reason = q.state_reason
    /\ pass_side = q.pass_side
    /\ requested_side = q.requested_side
    /\ original_side = q.original_side
    /\ lead_vehicle_id = q.lead_vehicle_id
    /\ lead_last_seen = q.lead_last_seen
    /\ overtaken_vehicle_id = q.overtaken_vehicle_id
    /\ pending_indicator_attr = q.pending_indicator_attr
    /\ pending_indicator_release = q.pending_indicator_release
    /\ last_indicator_side = q.last_indicator_side
    /\ last_indicator_time = q.last_indicator_time
    /\ observed_execution = q.observed_execution
    /\ speed_boost_applied = q.speed_boost_applied
    /\ speed_boost_target = q.speed_boost_target
    /\ active_speed_event = q.active_speed_event
    /\ active_speed_event_started = q.active_speed_event_started
    /\ lblinker = q.lblinker
    /\ rblinker = q.rblinker

(* --------------------------------------------------------------- time *)
\* time.time() at the present instant
now == Horizon

\* The timestamp `stamp` once dt more has elapsed; `keep` is the longest
\* interval the program compares its age against.
Past(stamp, dt, keep) ==
    IF now - (stamp - dt) > keep THEN 0 ELSE stamp - dt

\* The longest interval the age of the phase is compared against, per phase.
PhaseDeadline(s) ==
    CASE s = "MONITORING" -> hold_duration_s
      [] s \in { "REQUESTING_OUT", "REQUESTING_RETURN" } -> request_timeout_s
      [] s \in { "CHANGING_OUT", "RETURNING" } ->
            request_timeout_s + LANE_CHANGE_STALL_BUFFER_S
      [] s = "CLEARING" -> CLEARING_TIMEOUT_S
      [] OTHER -> 0

\* The plugin's fields seen dt later, nothing having run in between.
Elapse(p, dt) ==
    [ p EXCEPT
        !.state_since = Past(@, dt, PhaseDeadline(p.state)),
        !.lead_last_seen = Past(@, dt, 0),
        !.pending_indicator_release = Past(@, dt, 0),
        !.last_indicator_time = Past(@, dt, INDICATOR_COOLDOWN_S),
        !.active_speed_event_started = Past(@, dt, SPEED_EVENT_HOLD_S) ]

(* ------------------------------------------------------ Plugin methods *)
_refresh_side_preferences(p, preferred_side) ==
    [ p EXCEPT !.pass_side =
        IF preferred_side = "PassLeft" THEN "left" ELSE "right" ]

_set_phase(p, new_state, reason) ==
    IF p.state = new_state /\ reason = p.state_reason
    THEN p
    ELSE [ p EXCEPT !.state = new_state,
                    !.state_since = now,
                    !.state_reason = reason ]

_set_reason(p, reason) ==
    IF p.state_reason = reason THEN p ELSE [ p EXCEPT !.state_reason = reason ]

_get_opposite_side(side) == IF side = "left" THEN "right" ELSE "left"

\* _apply_speed_boost while int(settings.overtake_speed_boost_kph) is
\* boost_amount
_apply_speed_boost_with(p, boost_amount) ==
    IF boost_amount <= 0 THEN p
    ELSE IF p.speed_boost_target >= boost_amount THEN p
    ELSE [ p EXCEPT !.speed_boost_target = boost_amount ]

_apply_speed_boost(p) == _apply_speed_boost_with(p, overtake_speed_boost_kph)

_remove_speed_boost(p) ==
    IF p.speed_boost_target = 0 /\ p.speed_boost_applied = 0
    THEN p
    ELSE [ p EXCEPT !.speed_boost_target = 0 ]

Max(a, b) == IF a >= b THEN a ELSE b

\* events.emit(event_name, self, value, queue=False)
emit(p, event_name, value) ==
    [ p EXCEPT !.emitted =
        Append(@, [ event |-> event_name, value |-> value ]) ]

\* _finish_speed_adjustment, had a completed decrement pulse left the
\* applied boost as it was
_finish_speed_adjustment_never_lowers(p, cancel) ==
    IF p.active_speed_event = None THEN p
    ELSE LET event_name == p.active_speed_event
             applied ==
                 IF cancel THEN p.speed_boost_applied
                 ELSE IF event_name = "increment_speed"
                      THEN p.speed_boost_applied + 1
                      ELSE p.speed_boost_applied
         IN  [ emit(p, event_name, FALSE) EXCEPT
                 !.speed_boost_applied = applied,
                 !.active_speed_event = None,
                 !.active_speed_event_started = 0 ]

\* _finish_speed_adjustment, had it not released a cancelled pulse
_finish_speed_adjustment_drops_cancelled(p, cancel) ==
    IF p.active_speed_event = None THEN p
    ELSE LET event_name == p.active_speed_event
             applied ==
                 IF cancel THEN p.speed_boost_applied
                 ELSE IF event_name = "increment_speed"
                      THEN p.speed_boost_applied + 1
                      ELSE Max(0, p.speed_boost_applied - 1)
         IN  [ (IF cancel THEN p ELSE emit(p, event_name, FALSE)) EXCEPT
                 !.speed_boost_applied = applied,
                 !.active_speed_event = None,
                 !.active_speed_event_started = 0 ]

\* _finish_speed_adjustment, had a completed increase pulse counted twice
_finish_speed_adjustment_counts_twice(p, cancel) ==
    IF p.active_speed_event = None THEN p
    ELSE LET event_name == p.active_speed_event
             applied ==
                 IF cancel THEN p.speed_boost_applied
                 ELSE IF event_name = "increment_speed"
                      THEN p.speed_boost_applied + 2
                      ELSE Max(0, p.speed_boost_applied - 1)
         IN  [ emit(p, event_name, FALSE) EXCEPT
                 !.speed_boost_applied = applied,
                 !.active_speed_event = None,
                 !.active_speed_event_started = 0 ]

\* _finish_speed_adjustment, had it counted a cancelled pulse as well
_finish_speed_adjustment_counts_cancelled(p, cancel) ==
    IF p.active_speed_event = None THEN p
    ELSE LET event_name == p.active_speed_event
             applied ==
                 IF event_name = "increment_speed"
                 THEN p.speed_boost_applied + 1
                 ELSE Max(0, p.speed_boost_applied - 1)
         IN  [ emit(p, event_name, FALSE) EXCEPT
                 !.speed_boost_applied = applied,
                 !.active_speed_event = None,
                 !.active_speed_event_started = 0 ]

_finish_speed_adjustment(p, cancel) ==
    IF p.active_speed_event = None THEN p
    ELSE LET event_name == p.active_speed_event
             applied ==
                 IF cancel THEN p.speed_boost_applied
                 ELSE IF event_name = "increment_speed"
                      THEN p.speed_boost_applied + 1
                      ELSE Max(0, p.speed_boost_applied - 1)
         IN  [ emit(p, event_name, FALSE) EXCEPT
                 !.speed_boost_applied = applied,
                 !.active_speed_event = None,
                 !.active_speed_event_started = 0 ]

Sign(d) == IF d > 0 THEN 1 ELSE IF d < 0 THEN -1 ELSE 0

\* _update_speed_adjustments, had it started an increase pulse with nothing
\* pending
RECURSIVE _update_speed_adjustments_starts_at_target(_, _)
_update_speed_adjustments_starts_at_target(p, t) ==
    LET hold_duration == SPEED_EVENT_HOLD_S
        pending_delta == p.speed_boost_target - p.speed_boost_applied
    IN  IF p.active_speed_event # None
        THEN LET event_direction ==
                     IF p.active_speed_event = "increment_speed" THEN 1 ELSE -1
                 desired_direction == IF pending_delta >= 0 THEN 1 ELSE -1
             IN  IF desired_direction # event_direction
                 THEN _update_speed_adjustments_starts_at_target(
                          _finish_speed_adjustment(p, TRUE), t)
                 ELSE IF t - p.active_speed_event_started < hold_duration
                 THEN p
                 ELSE _update_speed_adjustments_starts_at_target(
                          _finish_speed_adjustment(p, FALSE), t)
        ELSE LET event_name == IF pending_delta >= 0 THEN "increment_speed"
                               ELSE "decrement_speed"
             IN  [ emit(p, event_name, TRUE) EXCEPT
                     !.active_speed_event = event_name,
                     !.active_speed_event_started = t ]

RECURSIVE _update_speed_adjustments(_, _)
_update_speed_adjustments(p, t) ==
    LET hold_duration == SPEED_EVENT_HOLD_S
        pending_delta == p.speed_boost_target - p.speed_boost_applied
    IN  IF p.active_speed_event # None
        THEN LET event_direction ==
                     IF p.active_speed_event = "increment_speed" THEN 1 ELSE -1
                 desired_direction == Sign(pending_delta)
             IN  IF desired_direction = 0 \/ desired_direction # event_direction
                 THEN _update_speed_adjustments(
                          _finish_speed_adjustment(p, TRUE), t)
                 ELSE IF t - p.active_speed_event_started < hold_duration
                 THEN p
                 ELSE _update_speed_adjustments(
                          _finish_speed_adjustment(p, FALSE), t)
        ELSE IF pending_delta = 0 THEN p
        ELSE LET event_name == IF pending_delta > 0 THEN "increment_speed"
                               ELSE "decrement_speed"
             IN  [ emit(p, event_name, TRUE) EXCEPT
                     !.active_speed_event = event_name,
                     !.active_speed_event_started = t ]

\* _reset_state, had it kept the time the lead vehicle was last seen
_reset_state_keeps_lead_last_seen(p, reason) ==
    LET p1 == _set_phase(p, "IDLE", reason)
        p2 == [ p1 EXCEPT !.requested_side = None,
                          !.lead_vehicle_id = NoValue,
                          !.overtaken_vehicle_id = NoValue,
                          !.observed_execution = FALSE ]
    IN  _update_speed_adjustments(_remove_speed_boost(p2), now)

\* _reset_state, had it kept the overtaken vehicle
_reset_state_keeps_overtaken_vehicle(p, reason) ==
    LET p1 == _set_phase(p, "IDLE", reason)
        p2 == [ p1 EXCEPT !.requested_side = None,
                          !.lead_vehicle_id = NoValue,
                          !.lead_last_seen = 0,
                          !.observed_execution = FALSE ]
    IN  _update_speed_adjustments(_remove_speed_boost(p2), now)

\* _reset_state, had it left the speed boost scheduled
_reset_state_keeps_speed_boost(p, reason) ==
    LET p1 == _set_phase(p, "IDLE", reason)
        p2 == [ p1 EXCEPT !.requested_side = None,
                          !.lead_vehicle_id = NoValue,
                          !.overtaken_vehicle_id = NoValue,
                          !.lead_last_seen = 0,
                          !.observed_execution = FALSE ]
    IN  _update_speed_adjustments(p2, now)

_reset_state(p, reason) ==
    LET p1 == _set_phase(p, "IDLE", reason)
        p2 == [ p1 EXCEPT !.requested_side = None,
                          !.lead_vehicle_id = NoValue,
                          !.overtaken_vehicle_id = NoValue,
                          !.lead_last_seen = 0,
                          !.observed_execution = FALSE ]
    IN  _update_speed_adjustments(_remove_speed_boost(p2), now)

\* on_takeover without its guard on the phase
on_takeover_in_any_phase(p) == _reset_state(p, "Driver takeover")

on_takeover(p) ==
    IF p.state # "IDLE" THEN _reset_state(p, "Driver takeover") ELSE p

_update_indicator_pulse(p, t) ==
    IF p.pending_indicator_attr # None /\ t >= p.pending_indicator_release
    THEN [ p EXCEPT ![p.pending_indicator_attr] = FALSE,
                    !.pending_indicator_attr = None,
                    !.pending_indicator_release = 0 ]
    ELSE p

\* _trigger_indicator, had it left the other indicator as it was
_trigger_indicator_keeps_opposite(p, side) ==
    LET attr == IF side = "left" THEN "lblinker" ELSE "rblinker"
    IN  [ p EXCEPT ![attr] = TRUE,
                   !.pending_indicator_attr = attr,
                   !.pending_indicator_release = now + INDICATOR_PULSE_S,
                   !.last_indicator_side = side,
                   !.last_indicator_time = now ]

_trigger_indicator(p, side) ==
    LET attr == IF side = "left" THEN "lblinker" ELSE "rblinker"
        opposite == IF side = "left" THEN "rblinker" ELSE "lblinker"
    IN  [ p EXCEPT ![opposite] = FALSE,
                   ![attr] = TRUE,
                   !.pending_indicator_attr = attr,
                   !.pending_indicator_release = now + INDICATOR_PULSE_S,
                   !.last_indicator_side = side,
                   !.last_indicator_time = now ]

\* _request_lane_change without the cooldown
_request_lane_change_at_once(p, side) == _trigger_indicator(p, side)

_request_lane_change(p, side) ==
    IF p.last_indicator_side = side
       /\ now - p.last_indicator_time < INDICATOR_COOLDOWN_S
    THEN p
    ELSE _trigger_indicator(p, side)

(* ------------------------------------------------- geometry, clearance *)
\* Telemetry headings are quarter turns: rotationX is -1, 0, 1 or 2
\* quarters of a turn, so rotation is a multiple of 90 degrees.
SinDeg(d) == CASE d = 90 -> 1 [] d = 270 -> -1 [] OTHER -> 0
CosDeg(d) == CASE d = 0 -> 1 [] d = 180 -> -1 [] OTHER -> 0

_orientation(api) ==
    LET r == api.rotationX * 90
        rotation == IF r < 0 THEN r + 360 ELSE r
        forward == << -SinDeg(rotation), -CosDeg(rotation) >>
        right == << CosDeg(rotation), -SinDeg(rotation) >>
    IN  << forward, right >>

\* run() caches _orientation(api) of the tick before any projection is made,
\* so the cached vectors are those of the same api.
_project(api, x, z) ==
    LET forward == _orientation(api)[1]
        right == _orientation(api)[2]
        dx == x - api.coordinateX
        dz == z - api.coordinateZ
    IN  << dx * forward[1] + dz * forward[2], dx * right[1] + dz * right[2] >>

Abs(a) == IF a < 0 THEN -a ELSE a

\* speed in 0.001 km/h from mm/s (x 3.6) and back (/ 3.6)
ToKph(speed_ms) == (speed_ms * 18) \div 5
ToMs(speed_kph) == (speed_kph * 5) \div 18

_calculate_safe_rear_clearance(speed_kph) ==
    LET speed_ms == ToMs(speed_kph)
        dynamic_clearance == (speed_ms * rear_time_gap_s) \div 20
    IN  Max(lane_clear_rear_m, dynamic_clearance)

\* _lane_is_clear, had it taken the vehicles beyond the front clearance for
\* those in the way
_lane_is_clear_beyond_front(side, api, traffic, front_clearance, rear_clearance, use_dynamic_rear) ==
    IF traffic = << >> THEN TRUE
    ELSE LET rear == IF use_dynamic_rear
                     THEN _calculate_safe_rear_clearance(ToKph(api.speed))
                     ELSE rear_clearance
             lane_center == IF side = "right" THEN lane_width_m ELSE -lane_width_m
             \* tolerance = lane_width_m * 0.75, compared as 4 * |..| > 3 * width
             Occupies(vehicle) ==
                 LET pr == _project(api, vehicle.x, vehicle.z)
                     longi == pr[1]
                     lateral == pr[2]
                 IN  /\ ~(vehicle.is_tmp \/ vehicle.is_trailer)
                     /\ ~(longi < front_clearance \/ longi < -rear)
                     /\ ~(LANE_TOLERANCE_FACTOR[2] * Abs(lateral - lane_center)
                            > LANE_TOLERANCE_FACTOR[1] * lane_width_m)
         IN  \A i \in 1 .. Len(traffic) : ~Occupies(traffic[i])

\* _lane_is_clear, had it not skipped trailers
_lane_is_clear_counts_trailers(side, api, traffic, front_clearance, rear_clearance, use_dynamic_rear) ==
    IF traffic = << >> THEN TRUE
    ELSE LET rear == IF use_dynamic_rear
                     THEN _calculate_safe_rear_clearance(ToKph(api.speed))
                     ELSE rear_clearance
             lane_center == IF side = "right" THEN lane_width_m ELSE -lane_width_m
             \* tolerance = lane_width_m * 0.75, compared as 4 * |..| > 3 * width
             Occupies(vehicle) ==
                 LET pr == _project(api, vehicle.x, vehicle.z)
                     longi == pr[1]
                     lateral == pr[2]
                 IN  /\ ~vehicle.is_tmp
                     /\ ~(longi > front_clearance \/ longi < -rear)
                     /\ ~(LANE_TOLERANCE_FACTOR[2] * Abs(lateral - lane_center)
                            > LANE_TOLERANCE_FACTOR[1] * lane_width_m)
         IN  \A i \in 1 .. Len(traffic) : ~Occupies(traffic[i])

_lane_is_clear(side, api, traffic, front_clearance, rear_clearance, use_dynamic_rear) ==
    IF traffic = << >> THEN TRUE
    ELSE LET rear == IF use_dynamic_rear
                     THEN _calculate_safe_rear_clearance(ToKph(api.speed))
                     ELSE rear_clearance
             lane_center == IF side = "right" THEN lane_width_m ELSE -lane_width_m
             \* tolerance = lane_width_m * 0.75, compared as 4 * |..| > 3 * width
             Occupies(vehicle) ==
                 LET pr == _project(api, vehicle.x, vehicle.z)
                     longi == pr[1]
                     lateral == pr[2]
                 IN  /\ ~(vehicle.is_tmp \/ vehicle.is_trailer)
                     /\ ~(longi > front_clearance \/ longi < -rear)
                     /\ ~(LANE_TOLERANCE_FACTOR[2] * Abs(lateral - lane_center)
                            > LANE_TOLERANCE_FACTOR[1] * lane_width_m)
         IN  \A i \in 1 .. Len(traffic) : ~Occupies(traffic[i])

\* _is_overtaken_vehicle_clear, had it accepted any distance behind
_is_overtaken_vehicle_clear_any_distance(p, api, traffic, min_rear_distance) ==
    IF p.overtaken_vehicle_id = NoValue THEN TRUE
    ELSE LET found == { i \in 1 .. Len(traffic) :
                          Some(traffic[i].id) = p.overtaken_vehicle_id }
         IN  IF found = { } THEN TRUE
             ELSE LET first == CHOOSE i \in found : \A j \in found : i <= j
                      overtaken_vehicle == traffic[first]
                      longi == _project(api, overtaken_vehicle.x,
                                        overtaken_vehicle.z)[1]
                  IN  longi < 0

_is_overtaken_vehicle_clear(p, api, traffic, min_rear_distance) ==
    IF p.overtaken_vehicle_id = NoValue THEN TRUE
    ELSE LET found == { i \in 1 .. Len(traffic) :
                          Some(traffic[i].id) = p.overtaken_vehicle_id }
         IN  IF found = { } THEN TRUE
             ELSE LET first == CHOOSE i \in found : \A j \in found : i <= j
                      overtaken_vehicle == traffic[first]
                      longi == _project(api, overtaken_vehicle.x,
                                        overtaken_vehicle.z)[1]
                  IN  longi < 0 /\ Abs(longi) > min_rear_distance

(* ------------------------------------------------- start eligibility *)
\* lane_status.startswith("executing")
StartsWithExecuting(lane_status) ==
    lane_status \in { "executing", "executing:left", "executing:right" }

\* _check_start_conditions, had it looked at the speed first
_check_start_conditions_speed_first(speed, speed_limit, lead_distance, lane_status, road_type, next_intersection_distance) ==
    IF speed < min_speed_kph
    THEN << FALSE, "Speed below threshold" >>
    ELSE IF lane_status # "idle"
    THEN << FALSE, "Lane change already active" >>
    ELSE IF lead_distance = NoValue \/ lead_distance[1] <= 0
    THEN << FALSE, "No vehicle in front" >>
    ELSE IF lead_distance[1] > min_lead_distance_m
    THEN << FALSE, "Lead vehicle too far" >>
    ELSE IF speed_limit > 0 /\ speed_limit - speed < min_speed_delta_kph
    THEN << FALSE, "Speed delta too small" >>
    ELSE IF require_highway /\ road_type # "highway"
    THEN << FALSE, "Road not marked as highway" >>
    ELSE IF /\ next_intersection_distance # NoValue
            /\ next_intersection_distance[1] > 0
            /\ next_intersection_distance[1] < intersection_buffer_m
    THEN << FALSE, "Intersection too close" >>
    ELSE << TRUE, "Eligible" >>

_check_start_conditions(speed, speed_limit, lead_distance, lane_status, road_type, next_intersection_distance) ==
    IF lane_status # "idle"
    THEN << FALSE, "Lane change already active" >>
    ELSE IF lead_distance = NoValue \/ lead_distance[1] <= 0
    THEN << FALSE, "No vehicle in front" >>
    ELSE IF lead_distance[1] > min_lead_distance_m
    THEN << FALSE, "Lead vehicle too far" >>
    ELSE IF speed < min_speed_kph
    THEN << FALSE, "Speed below threshold" >>
    ELSE IF speed_limit > 0 /\ speed_limit - speed < min_speed_delta_kph
    THEN << FALSE, "Speed delta too small" >>
    ELSE IF require_highway /\ road_type # "highway"
    THEN << FALSE, "Road not marked as highway" >>
    ELSE IF /\ next_intersection_distance # NoValue
            /\ next_intersection_distance[1] > 0
            /\ next_intersection_distance[1] < intersection_buffer_m
    THEN << FALSE, "Intersection too close" >>
    ELSE << TRUE, "Eligible" >>

\* _dependencies_ready, had it looked at the Map flag only
_dependencies_ready_Map_only(status) ==
    IF status = << >> THEN FALSE
    ELSE IF ~status[1].Map THEN FALSE
    ELSE TRUE

_dependencies_ready(status) ==
    IF status = << >> THEN FALSE
    ELSE IF ~status[1].Map THEN FALSE
    ELSE IF ~status[1].AdaptiveCruiseControl THEN FALSE
    ELSE TRUE

(* ------------------------------------------------------------- run() *)
\* What a tick reads (src/main.py 113, 480, 487-497, 519, 564).  The settings
\* are whatever the settings page (src/ui.py) last wrote.  Tags are read
\* through _read_tag, which turns a missing tag into its default.
\*   enabled, preferred_side     settings.enabled, settings.preferred_side
\*   status                      << >> (default {}) or <<[Map, AdaptiveCruiseControl]>>
\*   lane_change_status          a string, "idle" by default
\*   road_type                   a string
\*   next_intersection_distance  NoValue or <<number>>
\*   vehicle_in_front_distance   NoValue or <<number>>
\*   vehicle_highlights          a list of vehicle ids
\*   api                         [is_dict |-> FALSE] or the telemetry
\*   traffic                     [is_list, data]: Traffic.run() raised or
\*                               returned no list (is_list = FALSE), or the list

\* How far run() got: the plugin it leaves, where its thread stands, and
\* whether it ended in _reset_state (each call of _reset_state in run() is
\* followed by return).
Done(q) == [ plugin |-> q, pc |-> "boundary", full_reset |-> FALSE ]
Reset(p, reason) ==
    [ plugin |-> _reset_state(p, reason), pc |-> "boundary",
      full_reset |-> TRUE ]

\* lines 617-630: the lane is clear, the overtake starts
\* the start of the overtake, had it taken the passing side for the
\* original side
run_start_overtake_from_pass_side(p) ==
    LET p1 == [ p EXCEPT !.overtaken_vehicle_id = p.lead_vehicle_id,
                         !.original_side = p.pass_side ]
        p2 == _update_speed_adjustments(_apply_speed_boost(p1), now)
        p3 == [ p2 EXCEPT !.requested_side = p2.pass_side ]
        p4 == _request_lane_change(p3, p3.pass_side)
        p5 == [ p4 EXCEPT !.observed_execution = FALSE ]
    IN  _set_phase(p5, "REQUESTING_OUT",
                   "Requesting lane change to " \o p5.pass_side)

run_start_overtake(p) ==
    LET p1 == [ p EXCEPT !.overtaken_vehicle_id = p.lead_vehicle_id,
                         !.original_side = _get_opposite_side(p.pass_side) ]
        p2 == _update_speed_adjustments(_apply_speed_boost(p1), now)
        p3 == [ p2 EXCEPT !.requested_side = p2.pass_side ]
        p4 == _request_lane_change(p3, p3.pass_side)
        p5 == [ p4 EXCEPT !.observed_execution = FALSE ]
    IN  _set_phase(p5, "REQUESTING_OUT",
                   "Requesting lane change to " \o p5.pass_side)

\* lines 585-595
run_IDLE(p, eligible, reason) ==
    IF eligible
    THEN Done(_set_phase(p, "MONITORING", "Monitoring conditions"))
    ELSE Done(_set_reason(p, reason))

\* the MONITORING branch, had it not waited for the hold to elapse
run_MONITORING_without_hold(p, api, traffic, eligible, reason) ==
    IF ~eligible
    THEN Reset(p, reason)
    ELSE LET lane_clear ==
                 _lane_is_clear(p.pass_side, api, traffic,
                                lane_clear_front_m, lane_clear_rear_m, TRUE)
         IN  IF lane_clear
             THEN [ plugin |-> p, pc |-> "start_overtake",
                    full_reset |-> FALSE ]
             ELSE Reset(p, "Target lane occupied")

\* lines 597-635; the thread stands at "start_overtake" once line 610 found
\* the lane clear
run_MONITORING(p, api, traffic, eligible, reason) ==
    IF ~eligible
    THEN Reset(p, reason)
    ELSE IF now - p.state_since >= hold_duration_s
    THEN LET lane_clear ==
                 _lane_is_clear(p.pass_side, api, traffic,
                                lane_clear_front_m, lane_clear_rear_m, TRUE)
         IN  IF lane_clear
             THEN [ plugin |-> p, pc |-> "start_overtake",
                    full_reset |-> FALSE ]
             ELSE Reset(p, "Target lane occupied")
    ELSE Done(_set_reason(p, "Verifying stability"))

\* run_REQUESTING_OUT, had it entered CLEARING at the start of execution
run_REQUESTING_OUT_to_CLEARING(p, lane_status) ==
    IF StartsWithExecuting(lane_status)
    THEN Done(_set_phase([ p EXCEPT !.observed_execution = TRUE ],
                         "CLEARING", "Lane change started"))
    ELSE IF now - p.state_since > request_timeout_s
    THEN Reset(p, "Lane change did not start")
    ELSE Done(_request_lane_change(
                  _set_reason(p, "Awaiting lane change start"), p.pass_side))

\* lines 637-646
\* the REQUESTING_OUT branch, had it not noted the execution it observed
run_REQUESTING_OUT_unobserved(p, lane_status) ==
    IF StartsWithExecuting(lane_status)
    THEN Done(_set_phase(p, "CHANGING_OUT", "Lane change started"))
    ELSE IF now - p.state_since > request_timeout_s
    THEN Reset(p, "Lane change did not start")
    ELSE Done(_request_lane_change(
                  _set_reason(p, "Awaiting lane change start"), p.pass_side))

run_REQUESTING_OUT(p, lane_status) ==
    IF StartsWithExecuting(lane_status)
    THEN Done(_set_phase([ p EXCEPT !.observed_execution = TRUE ],
                         "CHANGING_OUT", "Lane change started"))
    ELSE IF now - p.state_since > request_timeout_s
    THEN Reset(p, "Lane change did not start")
    ELSE Done(_request_lane_change(
                  _set_reason(p, "Awaiting lane change start"), p.pass_side))

\* lines 648-667
run_CHANGING_OUT(p, lane_status) ==
    IF StartsWithExecuting(lane_status)
    THEN Done(_set_reason([ p EXCEPT !.observed_execution = TRUE ],
                          "Executing lane change (" \o lane_status \o ")"))
    ELSE IF lane_status = "idle"
    THEN IF p.observed_execution
         THEN Done(_set_phase(p, "CLEARING",
                              "Waiting for overtaken vehicle clearance"))
         ELSE Reset(p, "Lane change cancelled")
    ELSE IF now - p.state_since
              > request_timeout_s + LANE_CHANGE_STALL_BUFFER_S
    THEN Reset(p, "Lane change stalled")
    ELSE Done(_set_reason(p, "Waiting for lane change to finish"))

\* lines 669-698
run_CLEARING(p, api, traffic) ==
    LET is_clear == _is_overtaken_vehicle_clear(p, api, traffic,
                                                return_clearance_m)
        return_lane_clear ==
            _lane_is_clear(p.original_side, api, traffic,
                           lane_clear_front_m, lane_clear_rear_m, TRUE)
        p1 == IF is_clear
              THEN IF return_lane_clear
                   THEN _set_phase(
                            [ _request_lane_change(
                                  [ p EXCEPT !.requested_side = p.original_side ],
                                  p.original_side)
                              EXCEPT !.observed_execution = FALSE ],
                            "REQUESTING_RETURN",
                            "Requesting return to " \o p.original_side)
                   ELSE _set_reason(p, "Waiting for original lane to clear")
              ELSE _set_reason(p, "Waiting for overtaken vehicle to clear")
    IN  IF now - p1.state_since > CLEARING_TIMEOUT_S
        THEN Reset(p1, "Return timeout")
        ELSE Done(p1)

\* the REQUESTING_RETURN branch, had it timed out at request_timeout_s sharp
run_REQUESTING_RETURN_times_out_early(p, lane_status) ==
    IF StartsWithExecuting(lane_status)
    THEN Done(_set_phase([ p EXCEPT !.observed_execution = TRUE ],
                         "RETURNING", "Returning to original lane"))
    ELSE IF now - p.state_since >= request_timeout_s
    THEN Reset(p, "Return request timeout")
    ELSE Done(_request_lane_change(
                  _set_reason(p, "Awaiting return lane change start"),
                  p.original_side))

\* lines 700-711
run_REQUESTING_RETURN(p, lane_status) ==
    IF StartsWithExecuting(lane_status)
    THEN Done(_set_phase([ p EXCEPT !.observed_execution = TRUE ],
                         "RETURNING", "Returning to original lane"))
    ELSE IF now - p.state_since > request_timeout_s
    THEN Reset(p, "Return request timeout")
    ELSE Done(_request_lane_change(
                  _set_reason(p, "Awaiting return lane change start"),
                  p.original_side))

\* lines 713-732
run_RETURNING(p, lane_status) ==
    IF StartsWithExecuting(lane_status)
    THEN Done(_set_reason([ p EXCEPT !.observed_execution = TRUE ],
                          "Executing return (" \o lane_status \o ")"))
    ELSE IF lane_status = "idle"
    THEN IF p.observed_execution
         THEN Reset(_remove_speed_boost(p), "Overtake complete")
         ELSE Reset(p, "Return cancelled")
    ELSE IF now - p.state_since
              > request_timeout_s + LANE_CHANGE_STALL_BUFFER_S
    THEN Reset(p, "Return stalled")
    ELSE Done(_set_reason(p, "Waiting for return to finish"))

\* lines 537-544: the lead vehicle the tick reports
run_track_lead(p, vehicle_highlights) ==
    IF vehicle_highlights # << >>
    THEN [ p EXCEPT !.lead_vehicle_id = Some(vehicle_highlights[1]),
                    !.lead_last_seen = now ]
    ELSE p

\* the guard, had it covered MONITORING only
run_lead_changed_in_MONITORING(p, previous_lead) ==
    /\ p.lead_vehicle_id # NoValue
    /\ p.lead_vehicle_id # previous_lead
    /\ p.state = "MONITORING"

\* the guard, had it waited for a lead vehicle to be tracked
run_lead_changed_from_tracked(p, previous_lead) ==
    /\ p.lead_vehicle_id # NoValue
    /\ previous_lead # NoValue
    /\ p.lead_vehicle_id # previous_lead
    /\ p.state \in { "MONITORING", "REQUESTING_OUT" }

\* lines 546-551: the lead continuity guard
run_lead_changed(p, previous_lead) ==
    /\ p.lead_vehicle_id # NoValue
    /\ p.lead_vehicle_id # previous_lead
    /\ p.state \in { "MONITORING", "REQUESTING_OUT" }

\* lines 562-574: the traffic snapshot of the tick
run_traffic(result) == IF result.is_list THEN result.data ELSE << >>

\* run() from its first line to the end of the tick, or to the point where
\* the MONITORING branch has found the lane clear and is about to start the
\* overtake.
run_begin(p, in) ==
    LET p1 == _refresh_side_preferences(p, in.preferred_side)
        p2 == _update_indicator_pulse(p1, now)
        p3 == _update_speed_adjustments(p2, now)
    IN  IF ~in.enabled
        THEN Reset(p3, "Disabled")
        ELSE IF ~_dependencies_ready(in.status)
        THEN IF p3.state # "IDLE"
             THEN Reset(p3, "Waiting for Map/ACC")
             ELSE Done(_set_reason(p3, "Waiting for Map/ACC"))
        ELSE IF ~in.api.is_dict
        THEN Reset(p3, "Telemetry unavailable")
        ELSE
          LET api == in.api
              lane_status == in.lane_change_status
              speed == ToKph(api.speed)
              limit == ToKph(api.speedLimit)
              speed_limit == IF limit = 0 THEN speed + min_speed_delta_kph
                             ELSE limit
              previous_lead == p3.lead_vehicle_id
              p4 == run_track_lead(p3, in.vehicle_highlights)
          IN  IF run_lead_changed(p4, previous_lead)
              THEN Reset(p4, "Lead vehicle changed")
              ELSE
                LET traffic == run_traffic(in.traffic)
                    cond == _check_start_conditions(
                                speed, speed_limit,
                                in.vehicle_in_front_distance, lane_status,
                                in.road_type, in.next_intersection_distance)
                    eligible == cond[1]
                    reason == cond[2]
                IN  CASE p4.state = "IDLE" -> run_IDLE(p4, eligible, reason)
                      [] p4.state = "MONITORING" ->
                            run_MONITORING(p4, api, traffic, eligible, reason)
                      [] p4.state = "REQUESTING_OUT" ->
                            run_REQUESTING_OUT(p4, lane_status)
                      [] p4.state = "CHANGING_OUT" ->
                            run_CHANGING_OUT(p4, lane_status)
                      [] p4.state = "CLEARING" ->
                            run_CLEARING(p4, api, traffic)
                      [] p4.state = "REQUESTING_RETURN" ->
                            run_REQUESTING_RETURN(p4, lane_status)
                      [] p4.state = "RETURNING" ->
                            run_RETURNING(p4, lane_status)

\* run() executed without interruption
run(p, in) ==
    LET r == run_begin(p, in)
    IN  IF r.pc = "start_overtake"
        THEN Done(run_start_overtake(r.plugin))
        ELSE r

(* ------------------------------------------------------ the environment *)
\* Ticks follow each other by 0.25 s while the phase is younger than
\* FineWindow and by 1 s afterwards, or by a pause longer than every timeout.
\* A takeover notification comes at once or 0.25 s after the last handler.
FineWindow == hold_duration_s
TickGaps(p) ==
    IF now - p.state_since < FineWindow THEN { 5, 605 } ELSE { 20, 605 }
HandlerGaps == { 0, 5 }

\* A vehicle of the traffic snapshot, placed in the frame of an ego vehicle
\* that stands at the origin with heading 0: forward is -z, right is +x.
Vehicle(id, longi, lateral) ==
    [ id |-> id, x |-> lateral, z |-> -longi,
      is_tmp |-> FALSE, is_trailer |-> FALSE ]

\* 79.2 km/h under a limit of 99 km/h
Telemetry ==
    [ is_dict |-> TRUE, speed |-> 22000, speedLimit |-> 27500,
      rotationX |-> 0, coordinateX |-> 0, coordinateZ |-> 0 ]
NoTelemetry == [ is_dict |-> FALSE ]

TrafficList(data) == [ is_list |-> TRUE, data |-> data ]
TrafficUnavailable == [ is_list |-> FALSE, data |-> << >> ]

\* no traffic; a vehicle beside the ego in the left lane; vehicle 1 in the
\* right lane 10 m, 40 m and 60 m behind
Snapshots ==
    { << >>,
      << Vehicle(2, 10000, -lane_width_m) >>,
      << Vehicle(1, -10000, lane_width_m) >>,
      << Vehicle(1, -40000, lane_width_m) >>,
      << Vehicle(1, -60000, lane_width_m) >> }

Ready == << [ Map |-> TRUE, AdaptiveCruiseControl |-> TRUE ] >>
NotReady == << [ Map |-> TRUE, AdaptiveCruiseControl |-> FALSE ] >>
LaneStatuses == { "idle", "executing", "waiting" }
PreferredSides == { "PassLeft", "PassRight" }
Highlights == { << >> } \cup { << v >> : v \in VehicleIds }
TrafficResults == { TrafficUnavailable } \cup { TrafficList(d) : d \in Snapshots }

Reading(enabled, preferred_side, status, api, lane_status, distance, highlights, traffic) ==
    [ enabled |-> enabled,
      preferred_side |-> preferred_side,
      status |-> status,
      lane_change_status |-> lane_status,
      road_type |-> "highway",
      next_intersection_distance |-> NoValue,
      vehicle_in_front_distance |-> distance,
      vehicle_highlights |-> highlights,
      api |-> api,
      traffic |-> traffic ]

\* The readings of a tick.  Every combination of the values above that a
\* tick can tell apart is present: a disabled tick reads the settings only;
\* the lead vehicle is tracked once the dependencies are ready and the
\* telemetry is there; the traffic snapshot is only looked at when the
\* executor is idle and a lead vehicle is in range (MONITORING) or in
\* CLEARING, where the executor and the distance are not looked at.
TickInputs ==
    { Reading(FALSE, s, Ready, Telemetry, "idle", Some(25000), << >>,
              TrafficList(<< >>)) : s \in PreferredSides }
    \cup { Reading(TRUE, s, NotReady, Telemetry, "idle", Some(25000), << >>,
                   TrafficList(<< >>)) : s \in PreferredSides }
    \cup { Reading(TRUE, s, Ready, NoTelemetry, "idle", Some(25000), << >>,
                   TrafficList(<< >>)) : s \in PreferredSides }
    \cup { Reading(TRUE, s, Ready, Telemetry, "idle", Some(25000), h, t) :
             s \in PreferredSides, h \in Highlights, t \in TrafficResults }
    \cup { Reading(TRUE, s, Ready, Telemetry, l, Some(25000), h,
                   TrafficList(<< >>)) :
             s \in PreferredSides, h \in Highlights,
             l \in LaneStatuses \ { "idle" } }
    \cup { Reading(TRUE, s, Ready, Telemetry, "idle", NoValue, h,
                   TrafficList(<< >>)) :
             s \in PreferredSides, h \in Highlights }

(* --------------------------------------------------------------- actions *)
\* init(): _initialize_runtime_state, _refresh_side_preferences,
\* _set_phase(IDLE, "Initialized"); the settings are those stored.
InitialPlugin ==
    [ state |-> "IDLE", state_since |-> now, state_reason |-> "Boot",
      pass_side |-> "left", requested_side |-> None, original_side |-> "right",
      lead_vehicle_id |-> NoValue, lead_last_seen |-> 0,
      overtaken_vehicle_id |-> NoValue,
      pending_indicator_attr |-> None, pending_indicator_release |-> 0,
      last_indicator_side |-> None, last_indicator_time |-> 0,
      observed_execution |-> FALSE,
      speed_boost_applied |-> 0, speed_boost_target |-> 0,
      active_speed_event |-> None, active_speed_event_started |-> 0,
      lblinker |-> FALSE, rblinker |-> FALSE,
      emitted |-> << >> ]

init(preferred_side) ==
    _set_phase(_refresh_side_preferences(InitialPlugin, preferred_side),
               "IDLE", "Initialized")

Init ==
    /\ \E s \in PreferredSides : Is(init(s))
    /\ pc = "boundary"
    /\ takeover_in_run = FALSE
    /\ tick_parity = FALSE
    /\ call = NoCall

\* One tick: run() from its first to its last line.
Tick ==
    /\ pc = "boundary"
    /\ \E dt \in TickGaps(Plugin), in \in TickInputs :
          Install(run(Elapse(Plugin, dt), in).plugin)
    /\ UNCHANGED << pc, takeover_in_run, tick_parity, call >>

\* The takeover notification, delivered while run() is not executing or, in
\* SpecAsync, while it is.
Takeover ==
    /\ \E dt \in (IF pc = "boundary" THEN HandlerGaps ELSE { 0 }) :
          Install(on_takeover(Elapse(Plugin, dt)))
    /\ takeover_in_run' = (takeover_in_run \/ (pc # "boundary" /\ state # "IDLE"))
    /\ UNCHANGED << pc, tick_parity, call >>

Next ==
    \/ Tick
    \/ Takeover

\* Handlers run one after the other.
Spec == Init /\ [][Next]_vars

\* The host delivers "takeover" on a thread of its own: on_takeover may run
\* while run() stands between finding the lane clear (line 610) and starting
\* the overtake (lines 617-630).
RunBegin ==
    /\ pc = "boundary"
    /\ \E dt \in TickGaps(Plugin), in \in TickInputs :
          LET r == run_begin(Elapse(Plugin, dt), in)
          IN  Install(r.plugin) /\ pc' = r.pc
    /\ takeover_in_run' = FALSE
    /\ UNCHANGED << tick_parity, call >>

RunResume ==
    /\ pc = "start_overtake"
    /\ Install(run_start_overtake(Plugin))
    /\ pc' = "boundary"
    /\ UNCHANGED << takeover_in_run, tick_parity, call >>

NextAsync ==
    \/ RunBegin
    \/ RunResume
    \/ Takeover

SpecAsync == Init /\ [][NextAsync]_vars

\* The host calls run() again and again (fps_cap), each time later than the
\* time before: every tick is counted, and the count keeps growing.
CountedTick ==
    /\ pc = "boundary"
    /\ \E dt \in TickGaps(Plugin), in \in TickInputs :
          Install(run(Elapse(Plugin, dt), in).plugin)
    /\ tick_parity' = ~tick_parity
    /\ UNCHANGED << pc, takeover_in_run, call >>

FairNext ==
    \/ CountedTick
    \/ Takeover

TickPasses == tick_parity' = ~tick_parity

FairSpec == Init /\ [][FairNext]_vars /\ WF_tick_parity(TickPasses)

\* The speed pulses on their own: a boost of any size the settings allow is
\* scheduled once on a plugin that has none, and the pulse logic then runs
\* again and again, each time at least SPEED_EVENT_HOLD_S after the time
\* before.
BoostGaps == { SPEED_EVENT_HOLD_S, 20, 605 }

InitBoost ==
    /\ Is(InitialPlugin)
    /\ pc = "boundary"
    /\ takeover_in_run = FALSE
    /\ tick_parity = FALSE
    /\ call = NoCall

ApplyBoost ==
    /\ speed_boost_target = 0
    /\ \E boost_amount \in 1..MaxBoostTarget :
          Install(_apply_speed_boost_with(Plugin, boost_amount))
    /\ UNCHANGED << pc, takeover_in_run, tick_parity, call >>

BoostTick ==
    /\ \E dt \in BoostGaps :
          Install(_update_speed_adjustments(Elapse(Plugin, dt), now))
    /\ UNCHANGED << pc, takeover_in_run, tick_parity, call >>

NextBoost ==
    \/ ApplyBoost
    \/ BoostTick

SpecBoost == InitBoost /\ [][NextBoost]_vars

\* The start-eligibility check on its own, called with readings on either
\* side of each of its thresholds.
StartSpeeds == { min_speed_kph - 1000, min_speed_kph, 80000 }
StartSpeedLimits ==
    { 0, min_speed_kph + min_speed_delta_kph - 1000,
      min_speed_kph + min_speed_delta_kph, 99000 }
StartLeadDistances ==
    { NoValue, Some(0), Some(min_lead_distance_m),
      Some(min_lead_distance_m + 1000) }
StartRoadTypes == { "highway", "local" }
StartIntersections ==
    { NoValue, Some(0), Some(intersection_buffer_m - 1000),
      Some(intersection_buffer_m) }

InitStart ==
    /\ Is(InitialPlugin)
    /\ pc = "boundary"
    /\ takeover_in_run = FALSE
    /\ tick_parity = FALSE
    /\ call = NoCall

CheckStart ==
    /\ \E speed \in StartSpeeds, speed_limit \in StartSpeedLimits,
          lead_distance \in StartLeadDistances, lane_status \in LaneStatuses,
          road_type \in StartRoadTypes,
          next_intersection_distance \in StartIntersections :
          call' = [ method |-> "_check_start_conditions",
                    speed |-> speed, speed_limit |-> speed_limit,
                    lead_distance |-> lead_distance,
                    lane_status |-> lane_status, road_type |-> road_type,
                    next_intersection_distance |-> next_intersection_distance,
                    result |-> _check_start_conditions(
                                   speed, speed_limit, lead_distance,
                                   lane_status, road_type,
                                   next_intersection_distance) ]
    /\ UNCHANGED << plugin_vars, pc, takeover_in_run, tick_parity >>

NextStart == CheckStart

SpecStart == InitStart /\ [][NextStart]_vars

\* The lane clearance evaluator on its own: either side, the ego slow or fast
\* and heading two ways, clearances on either side of the configured ones,
\* and snapshots of no vehicle, of one vehicle at, within and beyond every
\* bound of the window, and of two vehicles.
LaneSpeeds == { 4000, 22000 }
LanePoses ==
    { [ Telemetry EXCEPT !.speed = v ] : v \in LaneSpeeds }
    \cup { [ Telemetry EXCEPT !.speed = v, !.rotationX = 2,
                              !.coordinateX = 5000, !.coordinateZ = -7000 ] :
             v \in LaneSpeeds }
LaneFronts == { lane_clear_front_m, lane_clear_front_m + 5000 }
LaneRears == { lane_clear_rear_m - 10000, lane_clear_rear_m }
LaneLongis ==
    { -60000, -55000, -20000, -10000, 25000, lane_clear_front_m,
      lane_clear_front_m + 5000, lane_clear_front_m + 10000 }
LaneLaterals ==
    { -lane_width_m, 0, lane_width_m,
      lane_width_m + (LANE_TOLERANCE_FACTOR[1] * lane_width_m)
                       \div LANE_TOLERANCE_FACTOR[2],
      lane_width_m + (LANE_TOLERANCE_FACTOR[1] * lane_width_m)
                       \div LANE_TOLERANCE_FACTOR[2] + 1 }
\* the vehicle at the given offsets of the pose api
VehicleAt(api, id, longi, lateral) ==
    LET forward == _orientation(api)[1]
        right == _orientation(api)[2]
    IN  [ id |-> id,
          x |-> api.coordinateX + longi * forward[1] + lateral * right[1],
          z |-> api.coordinateZ + longi * forward[2] + lateral * right[2],
          is_tmp |-> FALSE, is_trailer |-> FALSE ]
LaneSnapshots(api) ==
    { << >> }
    \cup { << VehicleAt(api, 1, longi, lateral) >> :
             longi \in LaneLongis, lateral \in LaneLaterals }
    \cup { << [ VehicleAt(api, 1, 25000, lane_width_m)
                EXCEPT !.is_trailer = TRUE ] >>,
           << [ VehicleAt(api, 1, 25000, -lane_width_m)
                EXCEPT !.is_tmp = TRUE ] >> }
    \cup { << VehicleAt(api, 1, lane_clear_front_m + 10000, lateral),
              VehicleAt(api, 2, longi, lane_width_m) >> :
             longi \in LaneLongis, lateral \in { -lane_width_m, lane_width_m } }

\* the call is made with arguments of the sets above ...
InitLane ==
    /\ Is(InitialPlugin)
    /\ pc = "boundary"
    /\ takeover_in_run = FALSE
    /\ tick_parity = FALSE
    /\ \E side \in Sides, api \in LanePoses,
          front_clearance \in LaneFronts, rear_clearance \in LaneRears,
          use_dynamic_rear \in BOOLEAN :
          \E traffic \in LaneSnapshots(api) :
             call = [ method |-> "_lane_is_clear",
                      side |-> side, api |-> api, traffic |-> traffic,
                      front_clearance |-> front_clearance,
                      rear_clearance |-> rear_clearance,
                      use_dynamic_rear |-> use_dynamic_rear,
                      returned |-> FALSE, result |-> FALSE ]

\* ... and returns
CheckLane ==
    /\ call.method = "_lane_is_clear"
    /\ ~call.returned
    /\ call' = [ call EXCEPT
                   !.returned = TRUE,
                   !.result = _lane_is_clear(
                                  call.side, call.api, call.traffic,
                                  call.front_clearance, call.rear_clearance,
                                  call.use_dynamic_rear) ]
    /\ UNCHANGED << plugin_vars, pc, takeover_in_run, tick_parity >>

NextLane == CheckLane

SpecLane == InitLane /\ [][NextLane]_vars

(* ----------------------------------------------------------- properties *)
\* A tick that comes dt after the last handler and reads `in`, run from the
\* current state without interruption.
AfterTick(dt, in) == run(Elapse(Plugin, dt), in)
\* The status tag of the tick says that Map and AdaptiveCruiseControl are
\* both ready.
BothReady(in) ==
    /\ in.status # << >>
    /\ in.status[1].Map
    /\ in.status[1].AdaptiveCruiseControl

\* The tick gets as far as the phase logic (lines 480, 505, 521 pass).
ReachesPhaseLogic(in) ==
    in.enabled /\ BothReady(in) /\ in.api.is_dict

\* The forward edges of the phase machine.
Edges ==
    { << "IDLE", "MONITORING" >>,
      << "MONITORING", "REQUESTING_OUT" >>,
      << "REQUESTING_OUT", "CHANGING_OUT" >>,
      << "CHANGING_OUT", "CLEARING" >>,
      << "CLEARING", "REQUESTING_RETURN" >>,
      << "REQUESTING_RETURN", "RETURNING" >> }

\* The start conditions as run() evaluates them from the readings of a tick
\* (lines 532-535, 576-583).
StartConditions(in) ==
    LET speed == ToKph(in.api.speed)
        limit == ToKph(in.api.speedLimit)
        speed_limit == IF limit = 0 THEN speed + min_speed_delta_kph ELSE limit
    IN  _check_start_conditions(speed, speed_limit,
                                in.vehicle_in_front_distance,
                                in.lane_change_status, in.road_type,
                                in.next_intersection_distance)
Eligible(in) == StartConditions(in)[1]

\* The tick does not actuate an indicator: no blinker attribute goes up and
\* the recorded side and time of the last actuation stay.
NoIndicatorActuation(p, q) ==
    /\ q.lblinker => p.lblinker
    /\ q.rblinker => p.rblinker
    /\ q.last_indicator_side = p.last_indicator_side
    /\ q.last_indicator_time = p.last_indicator_time

\* A tick that ends in a requesting phase has called _request_lane_change
\* (lines 624, 646, 685, 711) once, for this side.
MakesRequest(q) == q.state \in { "REQUESTING_OUT", "REQUESTING_RETURN" }
SideRequested(q) ==
    IF q.state = "REQUESTING_OUT" THEN q.pass_side ELSE q.original_side

\* The indicator attributes, the pending release and the recorded side and
\* time are in q what they are in p.
SameIndicator(p, q) ==
    /\ q.lblinker = p.lblinker
    /\ q.rblinker = p.rblinker
    /\ q.pending_indicator_attr = p.pending_indicator_attr
    /\ q.pending_indicator_release = p.pending_indicator_release
    /\ q.last_indicator_side = p.last_indicator_side
    /\ q.last_indicator_time = p.last_indicator_time

\* The plugin q a handler leaves, as the next handler finds it.
Handled(q) == [ q EXCEPT !.emitted = << >> ]

\* The handler that ended in q, at `now`, actuated the indicator of `side`
\* (_trigger_indicator, lines 210-211).
Actuated(q, side) ==
    q.last_indicator_side = side /\ q.last_indicator_time = now

\* Intervals after a handler at which the indicator pulse is looked at: before,
\* at and after INDICATOR_PULSE_S.
IndicatorGaps == { 0, 1, INDICATOR_PULSE_S, 3, 5, 20 }

\* dt after the present instant the pending release is due: the indicator
\* was actuated INDICATOR_PULSE_S or more before (a release time of 0 with a
\* pending attribute is one that has passed).
ReleaseDue(dt) ==
    /\ pending_indicator_attr # None
    /\ \/ pending_indicator_release = 0
       \/ now + dt >= pending_indicator_release

\* The side the tick passes on (settings.preferred_side, line 113).
PassSide(in) == IF in.preferred_side = "PassLeft" THEN "left" ELSE "right"

\* The lane on `side` evaluates clear on the traffic the tick has
\* (lines 602-608, 675-681).
LaneEvaluatesClear(side, in) ==
    _lane_is_clear(side, in.api, run_traffic(in.traffic),
                   lane_clear_front_m, lane_clear_rear_m, TRUE)

\* The lead continuity guard (lines 546-560) lets the tick pass: it reports
\* no lead vehicle or the one that is tracked.
LeadUnchanged(in) ==
    \/ in.vehicle_highlights = << >>
    \/ Some(in.vehicle_highlights[1]) = lead_vehicle_id

\* The traffic the tick has shows the overtaken vehicle more than
\* return_clearance_m behind the ego, or does not show it, or no overtaken
\* vehicle is recorded.
OvertakenVehicleBehind(in) ==
    LET traffic == run_traffic(in.traffic)
        shown == { i \in 1 .. Len(traffic) :
                     Some(traffic[i].id) = overtaken_vehicle_id }
    IN  \/ overtaken_vehicle_id = NoValue
        \/ shown = { }
        \/ LET first == CHOOSE i \in shown : \A j \in shown : i <= j
                ahead == _project(in.api, traffic[first].x, traffic[first].z)[1]
            IN  -ahead > return_clearance_m

\* The speed signals `signals`, sent while the pulse `active` was on (None:
\* no pulse), alternate: a start comes only while no pulse is on, a stop is
\* for the pulse that is on; `final` is the pulse that is on in the end.
RECURSIVE Alternates(_, _, _)
Alternates(active, signals, final) ==
    IF signals = << >> THEN active = final
    ELSE LET signal == Head(signals)
         IN  IF signal.value
             THEN active = None
                  /\ Alternates(signal.event, Tail(signals), final)
             ELSE active = signal.event
                  /\ Alternates(None, Tail(signals), final)

\* What a full reset leaves.
Cleared(q) ==
    /\ q.state = "IDLE"
    /\ q.requested_side = None
    /\ q.lead_vehicle_id = NoValue
    /\ q.overtaken_vehicle_id = NoValue
    /\ q.lead_last_seen = 0
    /\ q.observed_execution = FALSE
    /\ q.speed_boost_target = 0

\* C1: the phase is always one of the seven phases, and every change of phase
\* made by a tick or by the takeover handler goes one step forward along
\* Idle, Monitoring, RequestingOut, ChangingOut, Clearing, RequestingReturn,
\* Returning, or goes to Idle.
C1_PhaseEdges ==
    [][ /\ state \in OvertakeState
        /\ state' \in OvertakeState
        /\ state' # state =>
             (<< state, state' >> \in Edges \/ state' = "IDLE") ]_vars

\* a manoeuvre that walked every forward edge
C1_Witness == state = "RETURNING" /\ observed_execution

\* C2: while ticks keep coming and time advances, every phase other than Idle
\* is followed by Idle, whatever the external signals do.
C2_EventuallyIdle == (state # "IDLE") ~> (state = "IDLE")

\* C3: in ChangingOut or Returning, a tick later than request_timeout_s + 3 s
\* after the phase began that reads an executor status other than "idle"
\* resets the session with the reason "Lane change stalled" or
\* "Return stalled", also when the status begins with "executing".
C3_StallReset ==
    \A dt \in TickGaps(Plugin), in \in TickInputs :
        ( /\ state \in { "CHANGING_OUT", "RETURNING" }
          /\ ReachesPhaseLogic(in)
          /\ now - Elapse(Plugin, dt).state_since
                > request_timeout_s + LANE_CHANGE_STALL_BUFFER_S
          /\ in.lane_change_status # "idle" )
        => LET r == AfterTick(dt, in)
           IN  /\ r.full_reset
               /\ r.plugin.state = "IDLE"
               /\ r.plugin.state_reason =
                      (IF state = "CHANGING_OUT" THEN "Lane change stalled"
                       ELSE "Return stalled")

\* C4: a tick in Clearing later than 30 s after the phase began ends in Idle
\* with the reason "Return timeout", whatever the clearance of the overtaken
\* vehicle and of the return lane.
C4_ClearingTimeout ==
    \A dt \in TickGaps(Plugin), in \in TickInputs :
        ( /\ state = "CLEARING"
          /\ ReachesPhaseLogic(in)
          /\ now - Elapse(Plugin, dt).state_since > CLEARING_TIMEOUT_S )
        => LET r == AfterTick(dt, in)
           IN  /\ r.plugin.state = "IDLE"
               /\ r.plugin.state_reason = "Return timeout"

\* C5: the takeover handler in a phase other than Idle leaves the phase Idle,
\* the reason "Driver takeover", no requested side, no lead vehicle id, no
\* overtaken vehicle id and a boost target of 0; in Idle it changes nothing.
C5_Takeover ==
    \A dt \in HandlerGaps :
        LET p == Elapse(Plugin, dt)
            q == on_takeover(p)
        IN  IF p.state # "IDLE"
            THEN /\ q.state = "IDLE"
                 /\ q.state_reason = "Driver takeover"
                 /\ q.requested_side = None
                 /\ q.lead_vehicle_id = NoValue
                 /\ q.overtaken_vehicle_id = NoValue
                 /\ q.speed_boost_target = 0
            ELSE q = p

\* the handler has ended a boosted manoeuvre
C5_Witness ==
    /\ state = "IDLE"
    /\ state_reason = "Driver takeover"
    /\ speed_boost_applied > 0

\* C6: a takeover notification that arrives while a tick is executing is not
\* lost and not overwritten by that tick: when the tick has ended, the
\* session is reset.
C6_TakeoverNotOverwritten ==
    (pc = "boundary" /\ takeover_in_run)
    => /\ state = "IDLE"
       /\ requested_side = None
       /\ overtaken_vehicle_id = NoValue
       /\ speed_boost_target = 0

\* C7: in Monitoring or RequestingOut with lead vehicle A tracked, a tick that
\* reports another lead vehicle B ends in Idle, whatever else it reads.
C7_LeadChangeAborts ==
    \A dt \in TickGaps(Plugin), in \in TickInputs :
        ( /\ state \in { "MONITORING", "REQUESTING_OUT" }
          /\ lead_vehicle_id # NoValue
          /\ in.vehicle_highlights # << >>
          /\ Some(in.vehicle_highlights[1]) # lead_vehicle_id )
        => AfterTick(dt, in).plugin.state = "IDLE"

\* the lane change towards A is requested and the tick reports B
C7_Witness ==
    \E dt \in TickGaps(Plugin), in \in TickInputs :
        /\ state = "REQUESTING_OUT"
        /\ lead_vehicle_id # NoValue
        /\ in.vehicle_highlights # << >>
        /\ Some(in.vehicle_highlights[1]) # lead_vehicle_id
        /\ AfterTick(dt, in).plugin.state_reason = "Lead vehicle changed"

\* C8: right after a full reset, by a tick or by the takeover handler, the
\* phase is Idle, requested side, lead vehicle id and overtaken vehicle id are
\* none, the lead-last-seen time is 0, observed-execution is false and the
\* boost target is 0.
C8_FullReset ==
    /\ \A dt \in TickGaps(Plugin), in \in TickInputs :
          LET r == AfterTick(dt, in)
          IN  r.full_reset => Cleared(r.plugin)
    /\ \A dt \in HandlerGaps :
          LET p == Elapse(Plugin, dt)
          IN  p.state # "IDLE" => Cleared(on_takeover(p))

\* a tick sees a lead vehicle and then resets a boosted return
C8_Witness ==
    \E dt \in TickGaps(Plugin), in \in TickInputs :
        /\ state = "RETURNING"
        /\ observed_execution
        /\ requested_side # None
        /\ overtaken_vehicle_id # NoValue
        /\ speed_boost_target > 0
        /\ ReachesPhaseLogic(in)
        /\ in.vehicle_highlights # << >>
        /\ AfterTick(dt, in).full_reset

\* C9: while ticks keep coming and no manoeuvre sets a new boost target, a
\* boost target of 0 is followed by an applied boost of 0 with no speed pulse
\* active; disabled ticks and ticks without Map/ACC are among the ticks.
C9_BoostDecays ==
    (speed_boost_target = 0)
    ~> \/ speed_boost_applied = 0 /\ active_speed_event = None
       \/ speed_boost_target # 0

\* a reset by a disabled tick has left boost to take back
C9_Witness ==
    /\ state = "IDLE"
    /\ state_reason = "Disabled"
    /\ speed_boost_target = 0
    /\ speed_boost_applied > 0


\* C10: a tick that cannot obtain the traffic snapshot treats the lane as not
\* clear: it does not go from Monitoring to RequestingOut and not from
\* Clearing to RequestingReturn.
C10_NoSnapshotNotClear ==
    \A dt \in TickGaps(Plugin), in \in TickInputs :
        in.traffic = TrafficUnavailable
        => LET q == AfterTick(dt, in).plugin
           IN  /\ ~(state = "MONITORING" /\ q.state = "REQUESTING_OUT")
               /\ ~(state = "CLEARING" /\ q.state = "REQUESTING_RETURN")

\* C11: a tick of the enabled plugin that finds Map and AdaptiveCruiseControl
\* not both ready ends in Idle with the reason "Waiting for Map/ACC" whatever
\* the phase was, actuates no indicator and does not raise the boost target;
\* the first tick that finds them ready again evaluates the start conditions
\* from Idle: it enters Monitoring if they are eligible and stays in Idle if
\* they are not.
C11_DependencyGuard ==
    /\ \A dt \in TickGaps(Plugin), in \in TickInputs :
          (in.enabled /\ ~BothReady(in))
          => LET p == Elapse(Plugin, dt)
                 q == AfterTick(dt, in).plugin
             IN  /\ q.state = "IDLE"
                 /\ q.state_reason = "Waiting for Map/ACC"
                 /\ NoIndicatorActuation(p, q)
                 /\ q.speed_boost_target <= p.speed_boost_target
    /\ (state = "IDLE" /\ state_reason = "Waiting for Map/ACC")
       => \A dt \in TickGaps(Plugin), in \in TickInputs :
             ReachesPhaseLogic(in)
             => AfterTick(dt, in).plugin.state =
                    (IF Eligible(in) THEN "MONITORING" ELSE "IDLE")

\* the guard meets a lane change under way with boost requested
C11_Witness ==
    \E dt \in TickGaps(Plugin), in \in TickInputs :
        /\ state = "CHANGING_OUT"
        /\ speed_boost_target > 0
        /\ in.enabled
        /\ ~BothReady(in)
        /\ AfterTick(dt, in).plugin.state_reason = "Waiting for Map/ACC"

\* C12: RequestingOut is entered only from Monitoring, by a tick whose start
\* conditions are eligible, that comes at least hold_duration_s after
\* Monitoring was entered and that evaluates the passing-side lane clear; a
\* tick that stays in Monitoring is eligible and leaves the hold clock alone,
\* so every tick in between was eligible.  A Monitoring tick with the hold
\* elapsed and the passing-side lane occupied ends in Idle, and so does every
\* Monitoring tick that is not eligible.
C12_RequestingOutEntry ==
    \A dt \in TickGaps(Plugin), in \in TickInputs :
        LET p == Elapse(Plugin, dt)
            q == AfterTick(dt, in).plugin
            hold_elapsed == now - p.state_since >= hold_duration_s
        IN  /\ (q.state = "REQUESTING_OUT" /\ state # "REQUESTING_OUT")
               => /\ state = "MONITORING"
                  /\ ReachesPhaseLogic(in)
                  /\ Eligible(in)
                  /\ hold_elapsed
                  /\ LaneEvaluatesClear(PassSide(in), in)
            /\ (state = "MONITORING" /\ q.state = "MONITORING")
               => /\ ReachesPhaseLogic(in)
                  /\ Eligible(in)
                  /\ ~hold_elapsed
                  /\ q.state_since = p.state_since
            /\ (state = "MONITORING" /\ ReachesPhaseLogic(in))
               => /\ (Eligible(in) /\ hold_elapsed
                        /\ ~LaneEvaluatesClear(PassSide(in), in))
                     => q.state = "IDLE"
                  /\ ~Eligible(in) => q.state = "IDLE"
            /\ (state = "MONITORING" /\ ~ReachesPhaseLogic(in))
               => q.state = "IDLE"

\* the hold has elapsed in Monitoring; one tick finds the lane clear and
\* another finds it occupied
C12_Witness ==
    \E dt \in TickGaps(Plugin), in1 \in TickInputs, in2 \in TickInputs :
        /\ state = "MONITORING"
        /\ state_reason = "Verifying stability"
        /\ AfterTick(dt, in1).plugin.state = "REQUESTING_OUT"
        /\ AfterTick(dt, in2).plugin.state_reason = "Target lane occupied"

\* C13: a tick that reaches the RequestingOut (RequestingReturn) branch with
\* an executor status that does not begin with "executing" resets the
\* session with the reason "Lane change did not start" ("Return request
\* timeout") when more than request_timeout_s has elapsed since the phase
\* was entered, and stays in the phase when not; a tick whose status begins
\* with "executing" goes to ChangingOut (Returning).
C13_RequestTimeout ==
    \A dt \in TickGaps(Plugin), in \in TickInputs :
        ( /\ state \in { "REQUESTING_OUT", "REQUESTING_RETURN" }
          /\ ReachesPhaseLogic(in)
          /\ state = "REQUESTING_OUT" => LeadUnchanged(in) )
        => LET p == Elapse(Plugin, dt)
               r == AfterTick(dt, in)
               q == r.plugin
               out == state = "REQUESTING_OUT"
           IN  IF StartsWithExecuting(in.lane_change_status)
               THEN q.state = (IF out THEN "CHANGING_OUT" ELSE "RETURNING")
               ELSE IF now - p.state_since > request_timeout_s
               THEN /\ r.full_reset
                    /\ Cleared(q)
                    /\ q.state_reason =
                          (IF out THEN "Lane change did not start"
                           ELSE "Return request timeout")
               ELSE /\ q.state = state
                    /\ q.state_since = p.state_since

\* a return has been requested exactly request_timeout_s ago, the next tick
\* is late and the executor has not begun
C13_Witness ==
    \E dt \in TickGaps(Plugin), in \in TickInputs :
        /\ state = "REQUESTING_RETURN"
        /\ now - state_since = request_timeout_s
        /\ ReachesPhaseLogic(in)
        /\ in.lane_change_status = "waiting"
        /\ AfterTick(dt, in).plugin.state_reason = "Return request timeout"

\* C14: RequestingReturn is entered only from Clearing, by a tick for which
\* the overtaken vehicle is not recorded, not in the traffic snapshot or more
\* than return_clearance_m behind the ego, and which evaluates the original
\* lane clear; every other tick that reaches the Clearing branch stays in
\* Clearing, until the Clearing timeout sends it to Idle.
C14_RequestingReturnEntry ==
    \A dt \in TickGaps(Plugin), in \in TickInputs :
        LET p == Elapse(Plugin, dt)
            q == AfterTick(dt, in).plugin
        IN  /\ (q.state = "REQUESTING_RETURN" /\ state # "REQUESTING_RETURN")
               => /\ state = "CLEARING"
                  /\ ReachesPhaseLogic(in)
                  /\ OvertakenVehicleBehind(in)
                  /\ LaneEvaluatesClear(original_side, in)
            /\ ( /\ state = "CLEARING"
                 /\ ReachesPhaseLogic(in)
                 /\ ~(OvertakenVehicleBehind(in)
                        /\ LaneEvaluatesClear(original_side, in)) )
               => IF now - p.state_since > CLEARING_TIMEOUT_S
                  THEN q.state = "IDLE"
                  ELSE q.state = "CLEARING" /\ q.state_since = p.state_since

\* in Clearing, one tick sees the overtaken vehicle far enough behind and
\* requests the return, another sees it too close and waits
C14_Witness ==
    \E dt \in TickGaps(Plugin), in1 \in TickInputs, in2 \in TickInputs :
        /\ state = "CLEARING"
        /\ overtaken_vehicle_id # NoValue
        /\ in1.traffic.data # << >>
        /\ Some(in1.traffic.data[1].id) = overtaken_vehicle_id
        /\ AfterTick(dt, in1).plugin.state = "REQUESTING_RETURN"
        /\ AfterTick(dt, in2).plugin.state_reason
              = "Waiting for overtaken vehicle to clear"

\* C15, as the code has it: the overtaken vehicle id is recorded when the
\* overtake starts (line 617), so it is non-null only in RequestingOut,
\* ChangingOut, Clearing, RequestingReturn or Returning, and null in Idle and
\* Monitoring.
C15_OvertakenIdFromRequestingOut ==
    overtaken_vehicle_id # NoValue
    => state \in { "REQUESTING_OUT", "CHANGING_OUT", "CLEARING",
                   "REQUESTING_RETURN", "RETURNING" }

\* the lane change out is under way and the overtaken vehicle is recorded
C15_Witness == state = "CHANGING_OUT" /\ overtaken_vehicle_id # NoValue

\* C15, as stated: the overtaken vehicle id is non-null only in Clearing,
\* RequestingReturn or Returning.
C15_OvertakenIdFromClearing ==
    overtaken_vehicle_id # NoValue
    => state \in { "CLEARING", "REQUESTING_RETURN", "RETURNING" }

\* C16, as the code has it: the applied boost never exceeds the configured
\* boost, and it exceeds the boost target only after the boost was removed,
\* when the target is 0 and the applied boost is taken back pulse by pulse.
C16_AppliedWithinBoost ==
    /\ speed_boost_applied >= 0
    /\ speed_boost_applied <= overtake_speed_boost_kph
    /\ speed_boost_applied > speed_boost_target => speed_boost_target = 0

\* the whole boost is applied and its removal has just been requested
C16_Witness ==
    /\ speed_boost_target = 0
    /\ speed_boost_applied = overtake_speed_boost_kph
    /\ active_speed_event = "decrement_speed"

\* C16, as stated: the applied boost is never greater than the boost target.
C16_AppliedWithinTarget == speed_boost_applied <= speed_boost_target

\* C17: at most one speed pulse is on at a time.  The plugin's
\* active_speed_event is the pulse that is on in the stream of speed signals,
\* and the signals of every tick and of every takeover continue the stream
\* in alternation: a start signal is sent only while no pulse is on, and a
\* stop signal is for the pulse started last.
C17_PulsesAlternate ==
    /\ \A dt \in TickGaps(Plugin), in \in TickInputs :
          LET q == AfterTick(dt, in).plugin
          IN  Alternates(active_speed_event, q.emitted, q.active_speed_event)
    /\ \A dt \in HandlerGaps :
          LET q == on_takeover(Elapse(Plugin, dt))
          IN  Alternates(active_speed_event, q.emitted, q.active_speed_event)

\* a reset comes while an increase pulse is on: the tick stops it and starts
\* a decrease pulse
C17_Witness ==
    \E dt \in TickGaps(Plugin), in \in TickInputs :
        LET q == AfterTick(dt, in).plugin
        IN  /\ active_speed_event = "increment_speed"
            /\ Len(q.emitted) = 2
            /\ q.emitted[1] = [ event |-> "increment_speed", value |-> FALSE ]
            /\ q.emitted[2] = [ event |-> "decrement_speed", value |-> TRUE ]

\* C18: once a boost of N > 0 is scheduled on a plugin with nothing applied
\* and no pulse on, and the target is left alone, ticks at least
\* SPEED_EVENT_HOLD_S apart raise the applied boost to exactly N, one completed
\* increase pulse per unit: the first tick starts a pulse, every later tick
\* completes the pulse that is on, counts one more, and starts the next pulse
\* unless N is reached; once N is applied no pulse is on and no tick sends
\* anything.
C18_BoostConverges ==
    speed_boost_target > 0 =>
      /\ speed_boost_applied \in 0..speed_boost_target
      /\ active_speed_event \in { None, "increment_speed" }
      /\ active_speed_event = None =>
            speed_boost_applied \in { 0, speed_boost_target }
      /\ active_speed_event # None => speed_boost_applied < speed_boost_target
      /\ \A dt \in BoostGaps :
            LET q == _update_speed_adjustments(Elapse(Plugin, dt), now)
                start == [ event |-> "increment_speed", value |-> TRUE ]
                stop == [ event |-> "increment_speed", value |-> FALSE ]
            IN  /\ q.speed_boost_target = speed_boost_target
                /\ IF speed_boost_applied = speed_boost_target
                   THEN /\ q.emitted = << >>
                        /\ q.active_speed_event = None
                        /\ q.speed_boost_applied = speed_boost_target
                   ELSE IF active_speed_event = None
                   THEN /\ q.emitted = << start >>
                        /\ q.active_speed_event = "increment_speed"
                        /\ q.speed_boost_applied = 0
                   ELSE /\ q.speed_boost_applied = speed_boost_applied + 1
                        /\ q.emitted =
                              IF q.speed_boost_applied < speed_boost_target
                              THEN << stop, start >> ELSE << stop >>
                        /\ (q.active_speed_event = None)
                              = (q.speed_boost_applied = speed_boost_target)

\* the largest boost is applied in full
C18_Witness ==
    /\ speed_boost_target = MaxBoostTarget
    /\ speed_boost_applied = MaxBoostTarget
    /\ active_speed_event = None

\* C19: a request for the side whose indicator was actuated last, made less
\* than INDICATOR_COOLDOWN_S after that actuation, changes neither the
\* indicator attributes nor the pending release nor the recorded side and
\* time; any other request actuates the indicator of its side.  The cooldown
\* runs from the last actuation, not from the last request.
C19_NoActuationInCooldown ==
    \A dt \in TickGaps(Plugin), in \in TickInputs :
        LET p == Elapse(Plugin, dt)
            q == AfterTick(dt, in).plugin
            side == SideRequested(q)
            released == _update_indicator_pulse(p, now)
        IN  MakesRequest(q) =>
              IF /\ p.last_indicator_side = side
                 /\ now - p.last_indicator_time < INDICATOR_COOLDOWN_S
              THEN SameIndicator(released, q)
              ELSE /\ q.last_indicator_side = side
                   /\ q.last_indicator_time = now
                   /\ q.lblinker = (side = "left")
                   /\ q.rblinker = (side = "right")
                   /\ q.pending_indicator_release = now + INDICATOR_PULSE_S

\* the return was requested less than a second ago and is requested again
C19_Witness ==
    /\ state = "REQUESTING_RETURN"
    /\ last_indicator_side = original_side
    /\ \E dt \in TickGaps(Plugin), in \in TickInputs :
          /\ AfterTick(dt, in).plugin.state = "REQUESTING_RETURN"
          /\ now - Elapse(Plugin, dt).last_indicator_time
                < INDICATOR_COOLDOWN_S
          /\ lblinker # rblinker

\* C19 as stated: the return is requested by the tick before (the plugin is
\* in REQUESTING_RETURN) and by a tick less than INDICATOR_COOLDOWN_S later
\* (it stays there), with nothing in between; the second request changes
\* nothing of the indicator.
C19_SecondRequestIdle ==
    state = "REQUESTING_RETURN" =>
      \A dt \in TickGaps(Plugin), in \in TickInputs :
          LET p == Elapse(Plugin, dt)
              q == AfterTick(dt, in).plugin
          IN  (dt < INDICATOR_COOLDOWN_S /\ q.state = "REQUESTING_RETURN")
                => SameIndicator(_update_indicator_pulse(p, now), q)

\* C20: the indicator of one side is never actuated twice less than
\* INDICATOR_COOLDOWN_S apart, a request for the other side in between
\* included: when the indicator of a side was actuated, the next tick actuates
\* the other side and the tick after that actuates the first side again, the
\* two actuations of the first side are INDICATOR_COOLDOWN_S or more apart.
C20_SameSideCooldown ==
    last_indicator_side # None =>
      \A dt1 \in TickGaps(Plugin), in1 \in TickInputs :
          LET p1 == Elapse(Plugin, dt1)
              q1 == Handled(AfterTick(dt1, in1).plugin)
          IN  ( /\ p1.last_indicator_time # 0
                /\ Actuated(q1, _get_opposite_side(last_indicator_side)) )
              => \A dt2 \in TickGaps(q1), in2 \in TickInputs :
                    Actuated(run(Elapse(q1, dt2), in2).plugin,
                             last_indicator_side)
                    => (now - p1.last_indicator_time) + dt2
                         >= INDICATOR_COOLDOWN_S

\* C21: at most one of the two indicator attributes is held true, and one is
\* held true exactly while a release is pending for it.  The pulse logic
\* releases exactly when INDICATOR_PULSE_S or more has passed since the
\* actuation: it then sets the attribute false and clears the pending release.
\* So does every tick that comes then, unless the same tick actuates an
\* indicator anew.  A request for either side, made at any interval after the
\* last handler (the pending release looked at first, as run() does), leaves
\* at most one attribute held, with the release pending for it.
C21_IndicatorPulse ==
    /\ ~(lblinker /\ rblinker)
    /\ lblinker = (pending_indicator_attr = "lblinker")
    /\ rblinker = (pending_indicator_attr = "rblinker")
    /\ \A dt \in IndicatorGaps, side \in { "left", "right" } :
          LET r == _request_lane_change(
                       _update_indicator_pulse(Elapse(Plugin, dt), now), side)
          IN  /\ ~(r.lblinker /\ r.rblinker)
              /\ r.lblinker = (r.pending_indicator_attr = "lblinker")
              /\ r.rblinker = (r.pending_indicator_attr = "rblinker")
    /\ \A dt \in IndicatorGaps :
          LET p == Elapse(Plugin, dt)
              u == _update_indicator_pulse(p, now)
          IN  IF ReleaseDue(dt)
              THEN /\ ~u.lblinker /\ ~u.rblinker
                   /\ u.pending_indicator_attr = None
                   /\ u.pending_indicator_release = 0
              ELSE u = p
    /\ \A dt \in TickGaps(Plugin), in \in TickInputs :
          LET q == AfterTick(dt, in).plugin
          IN  ReleaseDue(dt) =>
                \/ /\ ~q.lblinker /\ ~q.rblinker
                   /\ q.pending_indicator_attr = None
                   /\ q.pending_indicator_release = 0
                \/ /\ q.last_indicator_time = now
                   /\ q.pending_indicator_release = now + INDICATOR_PULSE_S

\* the left indicator is held and the next tick releases it
C21_Witness ==
    /\ lblinker
    /\ pending_indicator_attr = "lblinker"
    /\ \E dt \in TickGaps(Plugin), in \in TickInputs :
          LET q == AfterTick(dt, in).plugin
          IN  ReleaseDue(dt) /\ ~q.lblinker /\ q.pending_indicator_attr = None

\* The conditions of the start-eligibility check in their fixed order, each
\* with its reason; StartFails(c)[i] says that condition i fails for the
\* call c.
StartReasons ==
    << "Lane change already active", "No vehicle in front",
       "Lead vehicle too far", "Speed below threshold",
       "Speed delta too small", "Road not marked as highway",
       "Intersection too close" >>
StartFails(c) ==
    << c.lane_status # "idle",
       c.lead_distance = NoValue \/ c.lead_distance[1] <= 0,
       c.lead_distance # NoValue /\ c.lead_distance[1] > min_lead_distance_m,
       c.speed < min_speed_kph,
       c.speed_limit # 0 /\ c.speed_limit - c.speed < min_speed_delta_kph,
       require_highway /\ c.road_type # "highway",
       /\ c.next_intersection_distance # NoValue
       /\ c.next_intersection_distance[1] > 0
       /\ c.next_intersection_distance[1] < intersection_buffer_m >>

\* C22: the start-eligibility check reports the reason of the first
\* condition that fails, in the fixed order, and reports eligible exactly
\* when none fails; with the lane status not "idle" the reason is "Lane
\* change already active" whatever the other inputs are.
C22_FirstFailingReason ==
    call.method = "_check_start_conditions" =>
      LET failing == { i \in 1 .. Len(StartReasons) : StartFails(call)[i] }
      IN  /\ call.result[1] = (failing = { })
          /\ failing = { } => call.result[2] = "Eligible"
          /\ \A i \in failing :
                (\A j \in failing : i <= j)
                  => call.result = << FALSE, StartReasons[i] >>
          /\ call.lane_status # "idle"
                => call.result = << FALSE, "Lane change already active" >>

\* a lane change is active and every other condition is favourable
C22_Witness ==
    /\ call.method = "_check_start_conditions"
    /\ { i \in 1 .. Len(StartReasons) : StartFails(call)[i] } = { 1 }
    /\ call.result = << FALSE, "Lane change already active" >>

\* The evaluation of the call c again, with the clearances front and rear.
LaneClearWith(c, front, rear) ==
    _lane_is_clear(c.side, c.api, c.traffic, front, rear, c.use_dynamic_rear)

\* C23: for a fixed snapshot, pose and side, the rear clearance taken from
\* the parameter, increasing the front and/or rear clearance never turns a
\* lane evaluated occupied into clear, and decreasing them never turns a lane
\* evaluated clear into occupied.
C23_WiderWindowStaysOccupied ==
    ( /\ call.method = "_lane_is_clear"
      /\ call.returned
      /\ ~call.use_dynamic_rear ) =>
      \A front \in LaneFronts, rear \in LaneRears :
          /\ ( /\ front >= call.front_clearance
               /\ rear >= call.rear_clearance
               /\ ~call.result )
             => ~LaneClearWith(call, front, rear)
          /\ ( /\ front <= call.front_clearance
               /\ rear <= call.rear_clearance
               /\ call.result )
             => LaneClearWith(call, front, rear)

\* a lane occupied with the smaller clearances, evaluated with larger ones
C23_Witness ==
    /\ call.method = "_lane_is_clear"
    /\ call.returned
    /\ ~call.use_dynamic_rear
    /\ ~call.result
    /\ \E front \in LaneFronts, rear \in LaneRears :
          /\ front > call.front_clearance
          /\ rear > call.rear_clearance
          /\ ~LaneClearWith(call, front, rear)

\* C23 as stated: increasing the clearances never turns a lane evaluated
\* clear into occupied, decreasing them never turns one evaluated occupied
\* into clear.
C23_WiderWindowStaysClear ==
    ( /\ call.method = "_lane_is_clear"
      /\ call.returned
      /\ ~call.use_dynamic_rear ) =>
      \A front \in LaneFronts, rear \in LaneRears :
          /\ ( /\ front >= call.front_clearance
               /\ rear >= call.rear_clearance
               /\ call.result )
             => LaneClearWith(call, front, rear)
          /\ ( /\ front <= call.front_clearance
               /\ rear <= call.rear_clearance
               /\ ~call.result )
             => ~LaneClearWith(call, front, rear)

\* Intervals after a handler at which the speed pulse is looked at: before, at
\* and after SPEED_EVENT_HOLD_S.
SpeedGaps == { 0, 1, SPEED_EVENT_HOLD_S - 1, SPEED_EVENT_HOLD_S, 20 }

\* The direction of the pulse that is on, and the direction the target asks
\* for.
PulseDirection == IF active_speed_event = "increment_speed" THEN 1 ELSE -1
DesiredDirection == Sign(speed_boost_target - speed_boost_applied)

\* dt after the present instant the pulse that is on has been held
\* SPEED_EVENT_HOLD_S or longer (a start time of 0 is one long past).
HeldLongEnough(dt) ==
    \/ active_speed_event_started = 0
    \/ (now - active_speed_event_started) + dt >= SPEED_EVENT_HOLD_S

\* C24: the pulse logic ends the pulse that is on as completed only when it
\* has been held SPEED_EVENT_HOLD_S or longer and the desired direction is
\* still its own, and the applied boost then changes by exactly one unit in
\* the direction of the pulse, unclamped; a pulse that is ended because the
\* desired direction is zero or opposite leaves the applied boost as it was;
\* otherwise the pulse stays on and nothing changes.  Over a whole tick or
\* takeover the applied boost changes only by the completion of the pulse
\* that was on.
C24_PulseCompletion ==
    active_speed_event # None =>
      LET stop == [ event |-> active_speed_event, value |-> FALSE ]
      IN  /\ \A dt \in SpeedGaps :
                LET p == Elapse(Plugin, dt)
                    u == _update_speed_adjustments(p, now)
                IN  IF DesiredDirection # PulseDirection
                    THEN /\ u.speed_boost_applied = speed_boost_applied
                         /\ u.emitted # << >> /\ Head(u.emitted) = stop
                    ELSE IF HeldLongEnough(dt)
                    THEN /\ u.speed_boost_applied
                              = speed_boost_applied + PulseDirection
                         /\ u.emitted # << >> /\ Head(u.emitted) = stop
                    ELSE u = p
          /\ \A dt \in TickGaps(Plugin), in \in TickInputs :
                AfterTick(dt, in).plugin.speed_boost_applied
                  = IF DesiredDirection = PulseDirection /\ HeldLongEnough(dt)
                    THEN speed_boost_applied + PulseDirection
                    ELSE speed_boost_applied
          \* a takeover outside IDLE sets the target to 0 first
          /\ \A dt \in HandlerGaps :
                on_takeover(Elapse(Plugin, dt)).speed_boost_applied
                  = IF /\ state # "IDLE"
                       /\ Sign(0 - speed_boost_applied) = PulseDirection
                       /\ HeldLongEnough(dt)
                    THEN speed_boost_applied + PulseDirection
                    ELSE speed_boost_applied

\* an increase pulse is on with one unit applied: the next tick completes it,
\* a takeover ends it with the applied boost left at one unit and starts a
\* decrease pulse
C24_Witness ==
    /\ active_speed_event = "increment_speed"
    /\ speed_boost_applied = 1
    /\ \E dt \in TickGaps(Plugin), in \in TickInputs :
          AfterTick(dt, in).plugin.speed_boost_applied = 2
    /\ \E dt \in HandlerGaps :
          LET q == on_takeover(Elapse(Plugin, dt))
          IN  /\ q.speed_boost_applied = 1
              /\ q.active_speed_event = "decrement_speed"

\* The phases of an overtake under way.
OvertakePhases == OvertakeState \ { "IDLE", "MONITORING" }

\* C25: the tick that goes from MONITORING to REQUESTING_OUT records the
\* lead id tracked at that tick as the overtaken id, the opposite of the
\* passing side as the original side and the passing side as the requested
\* side, and raises the boost target to the configured boost; a tick of an
\* overtake under way that does no full reset leaves the overtaken id and the
\* original side as they are, whatever lead id and preferred side it reads.
C25_StartRecords ==
    \A dt \in TickGaps(Plugin), in \in TickInputs :
        LET r == AfterTick(dt, in)
            q == r.plugin
        IN  /\ (state = "MONITORING" /\ q.state = "REQUESTING_OUT") =>
                  /\ q.overtaken_vehicle_id = q.lead_vehicle_id
                  /\ q.original_side = _get_opposite_side(PassSide(in))
                  /\ q.requested_side = PassSide(in)
                  /\ q.speed_boost_target = overtake_speed_boost_kph
            /\ (state \in OvertakePhases /\ ~r.full_reset) =>
                  /\ q.state \in OvertakePhases
                  /\ q.overtaken_vehicle_id = overtaken_vehicle_id
                  /\ q.original_side = original_side

\* the overtake of vehicle 1 has just started, and the next tick reads the
\* other preferred side and goes on
C25_Witness ==
    /\ state = "REQUESTING_OUT"
    /\ state_reason = "Requesting lane change to " \o pass_side
    /\ overtaken_vehicle_id = Some(1)
    /\ \E dt \in TickGaps(Plugin), in \in TickInputs :
          LET r == AfterTick(dt, in)
          IN  /\ ~r.full_reset
              /\ PassSide(in) # pass_side
              /\ r.plugin.original_side = original_side

\* The rear clearance the call c works with: in dynamic mode the larger of
\* the configured minimum and the speed (mm/s) times rear_time_gap_s.
RearClearance(c) ==
    IF c.use_dynamic_rear
    THEN Max(lane_clear_rear_m, (c.api.speed * rear_time_gap_s) \div 20)
    ELSE c.rear_clearance

\* The vehicle stands in the window of the call c: it is neither a trailer
\* nor temporary, its longitudinal offset is from -rear clearance to front
\* clearance (bounds included) and its lateral offset from the centre of the
\* lane is at most 0.75 x lane width.
InWindow(c, vehicle) ==
    LET offsets == _project(c.api, vehicle.x, vehicle.z)
        centre == IF c.side = "right" THEN lane_width_m ELSE -lane_width_m
    IN  /\ ~vehicle.is_trailer
        /\ ~vehicle.is_tmp
        /\ offsets[1] >= -RearClearance(c)
        /\ offsets[1] <= c.front_clearance
        /\ LANE_TOLERANCE_FACTOR[2] * Abs(offsets[2] - centre)
              <= LANE_TOLERANCE_FACTOR[1] * lane_width_m

\* C26: the lane clearance evaluator returns not-clear exactly when some
\* vehicle of the snapshot that is neither a trailer nor temporary has its
\* longitudinal offset in the window from -rear clearance to front clearance
\* and its lateral offset from the lane centre within 0.75 x lane width; in
\* dynamic mode the rear clearance is the larger of the configured minimum
\* and speed x time gap; an empty snapshot is clear.
C26_ClearExactlyWhenWindowEmpty ==
    (call.method = "_lane_is_clear" /\ call.returned) =>
      /\ call.result
            = ~(\E i \in 1 .. Len(call.traffic) : InWindow(call, call.traffic[i]))
      /\ call.traffic = << >> => call.result

\* at speed the dynamic rear clearance reaches a vehicle 55 m behind that the
\* configured clearance would leave out
C26_Witness ==
    /\ call.method = "_lane_is_clear"
    /\ call.returned
    /\ call.use_dynamic_rear
    /\ RearClearance(call) > call.rear_clearance
    /\ ~call.result
    /\ LaneClearWith([ call EXCEPT !.use_dynamic_rear = FALSE ],
                     call.front_clearance, call.rear_clearance)

\* C27: while the phase is REQUESTING_OUT every indicator request, the one
\* that starts the overtake and each one issued again by a later tick, is for
\* the side recorded as the requested side, and so is every indicator that is
\* actuated, whatever preferred side the ticks read.
C27_RequestsForRequestedSide ==
    \A dt \in TickGaps(Plugin), in \in TickInputs :
        LET q == AfterTick(dt, in).plugin
        IN  q.state = "REQUESTING_OUT" =>
              /\ SideRequested(q) = q.requested_side
              /\ q.last_indicator_time = now
                    => q.last_indicator_side = q.requested_side

\* C28: whenever a tick or a takeover ends in IDLE, the requested side and
\* the overtaken id are none, the observed-execution flag is false and the
\* boost target is 0; the boost target is positive only in the phases of an
\* overtake under way.
C28_IdleIsNeutral ==
    /\ state = "IDLE" =>
          /\ requested_side = None
          /\ overtaken_vehicle_id = NoValue
          /\ ~observed_execution
          /\ speed_boost_target = 0
    /\ speed_boost_target > 0 => state \in OvertakePhases

\* IDLE after an overtake that had its boost applied was reset
C28_Witness ==
    /\ state = "IDLE"
    /\ state_reason = "Driver takeover"
    /\ speed_boost_applied = overtake_speed_boost_kph
    /\ speed_boost_target = 0

\* C29: in CHANGING_OUT and in RETURNING the observed-execution flag is
\* true, and no tick ends with the reason "Lane change cancelled" or "Return
\* cancelled": the branches for a lane change that went idle without having
\* been observed executing are never taken.
C29_ExecutionObserved ==
    /\ state \in { "CHANGING_OUT", "RETURNING" } => observed_execution
    /\ state_reason \notin { "Lane change cancelled", "Return cancelled" }
    /\ \A dt \in TickGaps(Plugin), in \in TickInputs :
          AfterTick(dt, in).plugin.state_reason
            \notin { "Lane change cancelled", "Return cancelled" }

\* the lane change out goes idle after it was observed executing
C29_Witness ==
    /\ state = "CHANGING_OUT"
    /\ observed_execution
    /\ \E dt \in TickGaps(Plugin), in \in TickInputs :
          /\ in.lane_change_status = "idle"
          /\ AfterTick(dt, in).plugin.state = "CLEARING"

\* C30: in MONITORING or REQUESTING_OUT, a tick that has the dependencies
\* ready and telemetry ends with the reset "Lead vehicle changed" exactly when
\* it reports a lead id other than the one tracked before it, none being
\* tracked included; a tick that reports no id does not, and leaves the
\* tracked id as it is unless it resets for another reason.
C30_LeadGuard ==
    state \in { "MONITORING", "REQUESTING_OUT" } =>
      \A dt \in TickGaps(Plugin), in \in TickInputs :
          LET r == AfterTick(dt, in)
              q == r.plugin
              fires == /\ r.full_reset
                       /\ q.state = "IDLE"
                       /\ q.state_reason = "Lead vehicle changed"
          IN  ReachesPhaseLogic(in) =>
                /\ fires = ( /\ in.vehicle_highlights # << >>
                             /\ Some(in.vehicle_highlights[1])
                                  # lead_vehicle_id )
                /\ in.vehicle_highlights = << >> =>
                      \/ r.full_reset
                      \/ q.lead_vehicle_id = lead_vehicle_id

\* no lead vehicle is tracked in MONITORING and the tick reports one
C30_Witness ==
    /\ state = "MONITORING"
    /\ lead_vehicle_id = NoValue
    /\ \E dt \in TickGaps(Plugin), in \in TickInputs :
          /\ ReachesPhaseLogic(in)
          /\ in.vehicle_highlights # << >>
          /\ AfterTick(dt, in).plugin.state_reason = "Lead vehicle changed"

====
